---- MODULE Spec2Model ----
(***************************************************************************)
(* Echo-System: the fusion scorer (fusion/fusion.py), its service wrapper  *)
(* (api/app/services/predict.py), the demo's risk bucketing                *)
(* (test_fusion_demo.py) and the preparation run                           *)
(* (api/preprocessing/preprocess.py).                                      *)
(*                                                                         *)
(* Numbers.  Python floats are modelled in fixed point: a probability or   *)
(* score x is the integer x * One (One = 1000 stands for 1.0).  A product  *)
(* of two such numbers (a weight times a probability) is kept unscaled, in *)
(* units of One * One, so the arithmetic is exact.  Window cells are       *)
(* integers; the float32 conversion of np.array is modelled on them.       *)
(***************************************************************************)
EXTENDS Integers, Sequences, FiniteSets, TLC

VARIABLES
    imported,     \* predict.py:15-19  predict_fusion is not None
    broken,       \* the artifacts whose load raises (missing or corrupt file)
    handles,      \* fusion.py:21-25   the module globals: TRUE = not None
    window_data,  \* the request's window (JSON array of arrays of numbers)
    agg_data,     \* the request's aggregate mapping
    outcome,      \* what the last scoring call gave its caller
    calls,        \* scoring calls made so far in this process
    tpc,          \* per thread: position inside load_all
    tret,         \* per thread: the tuple load_all returned
    inits,        \* per handle: loads that completed (objects constructed)
    triple,       \* the demo's model outputs (sequence_prob, tabular_prob, ae_scaled)
    dpc,          \* the demo's position: start, fused, assessed
    risk_score,   \* the demo's fused risk, in units of One * One
    level,        \* the demo's risk level for risk_score
    dataset,      \* preprocess.py:90   the readings of the CSV, per device
    df_main,      \* preprocess.py:90   main's df: the frame load_data returned
    ppc,          \* the preparation run's position in main
    dev,          \* preprocess.py:98   the device the loop is at
    df_res,       \* preprocess.py:100-101  the frame of the device at hand
    windows,      \* preprocess.py:104  the windows kept of the device at hand
    win_labels,   \* preprocess.py:104  their labels
    all_windows,  \* preprocess.py:93   the windows kept so far, per device
    all_labels,   \* preprocess.py:94   their labels
    agg_rows,     \* preprocess.py:95   the aggregate tables, per device
    concat_for_scaler, \* preprocess.py:96  the channel columns, per device
    norm,         \* preprocess.py:117-121  the imputer and the scaler
    windows_scaled, \* preprocess.py:137-141  the normalized windows
    agg_df,       \* preprocess.py:148-152  the normalized aggregate table
    artifacts,    \* preprocess.py:124-154  the files written to OUT_DIR
    perr,         \* the exception the preparation run ended with, if any
    clients_col,  \* api.py:53   the documents of collection 'clients'
    metrics_col,  \* api.py:54   the documents of collection 'gpu_metrics'
    coll,         \* db.py       the documents of the sensor collection
    clock,        \* the wall clock, in minutes since 2024-01-01T00:00Z
    request,      \* the HTTP request served last
    response,     \* the HTTP response it was given
    served        \* the requests served so far

vars == <<imported, broken, handles, window_data, agg_data, outcome, calls,
          tpc, tret, inits, triple, dpc, risk_score, level,
          dataset, df_main, ppc, dev, df_res, windows, win_labels, all_windows, all_labels,
          agg_rows,
          concat_for_scaler, norm, windows_scaled, agg_df, artifacts,
          perr,
          clients_col, metrics_col, coll, clock, request, response, served>>

fusionVars == <<imported, window_data, agg_data, outcome, calls>>
threadVars == <<tpc, tret, inits>>
riskVars == <<triple, dpc, risk_score, level>>
prepVars == <<dataset, df_main, ppc, dev, df_res, windows, win_labels, all_windows, all_labels,
          agg_rows,
              concat_for_scaler, norm, windows_scaled, agg_df, artifacts,
                   perr>>
apiVars == <<clients_col, metrics_col, coll, clock, request, response, served>>

----------------------------------------------------------------------------
\* Program constants

T == 60
F == 4
One == 1000
W_LSTM == 600
W_RF == 300
W_AE == 100
Half == 500
LowBelow == 300
MediumBelow == 600
BinSeconds == 60
MIN_VALID_RATIO == 800
Limit == 5

\* Bounds of the model
MaxExtra == 2
MaxCalls == 2
NThreads == 2
GridSteps == 20

----------------------------------------------------------------------------
\* Generic helpers

\* The element of a singleton set.  { e(x) : x \in {v} } evaluates v once,
\* where LET x == v IN e(x) evaluates it at each use of x.
The(S) == CHOOSE x \in S : TRUE

Raise(e) == [kind |-> "raise", exc |-> e]
Return(v) == [kind |-> "return", value |-> v]

----------------------------------------------------------------------------
\* numpy arrays.  An array is [shape, data]: data is the sequence of its rows
\* (a 2-D array) and shape its numpy shape; the array of the empty list has
\* shape <<0>>.

RECURSIVE Ulp(_, _)
\* The spacing of float32 values around x >= 2^24: 2 up to 2^25, doubling
\* with each further binade (24 significand bits).
Ulp(x, u) == IF x < 16777216 * u THEN u ELSE Ulp(x, 2 * u)

\* x rounded to a multiple of u: to the nearest, ties to the even multiple
RoundToEven(x, u) ==
    IF 2 * (x % u) < u THEN x - (x % u)
    ELSE IF 2 * (x % u) > u THEN x - (x % u) + u
    ELSE IF (x \div u) % 2 = 0 THEN x - (x % u) ELSE x - (x % u) + u

\* np.float32 of a non-negative integer: exact below 2^24, else rounded to
\* the nearest float32, ties to even.
ToFloat32(x) ==
    IF x < 16777216 THEN x ELSE The({RoundToEven(x, u) : u \in {Ulp(x, 2)}})

IsRectangular(w) == \A i \in 1..Len(w) : Len(w[i]) = Len(w[1])

\* predict.py:45  np.array(window_data, dtype=np.float32): a ragged list of
\* lists has no float32 array (ValueError).
np_array(w) ==
    IF Len(w) = 0 THEN Return([shape |-> <<0>>, data |-> <<>>])
    ELSE IF ~IsRectangular(w) THEN Raise("ValueError")
    ELSE Return([shape |-> <<Len(w), Len(w[1])>>,
                 data |-> [i \in 1..Len(w) |->
                              [j \in 1..Len(w[1]) |-> ToFloat32(w[i][j])]]])

\* predict.py:52  np.zeros((n, 4))
np_zeros(n, f) == [shape |-> <<n, f>>, data |-> [i \in 1..n |-> [j \in 1..f |-> 0]]]

\* predict.py:53  np.vstack([a, b]) with a 2-D: b is made at least 2-D and
\* the column counts must agree.
np_vstack_append(a, b) ==
    IF Len(b.shape) # 2 \/ b.shape[2] # a.shape[2] THEN Raise("ValueError")
    ELSE Return([shape |-> <<a.shape[1] + b.shape[1], a.shape[2]>>,
                 data |-> b.data \o a.data])

np_vstack(a, b) ==
    IF Len(b.shape) # 2 \/ b.shape[2] # a.shape[2] THEN Raise("ValueError")
    ELSE Return([shape |-> <<a.shape[1] + b.shape[1], a.shape[2]>>,
                 data |-> a.data \o b.data])

\* predict.py:56  a[-n:] for an array of at least n rows
LastRows(a, n) ==
    [shape |-> [a.shape EXCEPT ![1] = n],
     data |-> SubSeq(a.data, a.shape[1] - n + 1, a.shape[1])]

\* predict.py:48-56  the shape adaptation.  The result carries what was done:
\* padded (a vstack of zero rows was performed), truncated (a slice was taken).
AdaptShape(a) ==
    IF a.shape = <<T, F>> THEN
        [res |-> Return(a), padded |-> FALSE, truncated |-> FALSE]
    ELSE IF a.shape[1] < T THEN
        The({[res |-> v, padded |-> v.kind = "return", truncated |-> FALSE] :
                v \in {np_vstack(np_zeros(T - a.shape[1], F), a)}})
    ELSE IF a.shape[1] > T THEN
        [res |-> Return(LastRows(a, T)), padded |-> FALSE, truncated |-> TRUE]
    ELSE [res |-> Return(a), padded |-> FALSE, truncated |-> FALSE]


----------------------------------------------------------------------------
\* fusion.py: the lazily loaded handles

\* fusion.py:30-39  the handles, in the order load_all loads them
HandleOrder == <<"_lstm", "_ae", "_rf", "_imputer", "_scaler">>
HandleSet == {HandleOrder[i] : i \in 1..Len(HandleOrder)}

NoneLoaded == [h \in HandleSet |-> FALSE]

\* fusion.py:42  the tuple of the except branch: None, None, _rf, _imputer, _scaler
ExceptTuple(g) == [h \in HandleSet |-> IF h \in {"_lstm", "_ae"} THEN FALSE ELSE g[h]]

RECURSIVE LoadSteps(_, _, _)
\* fusion.py:29-39  the try block run by one thread alone, from the i-th
\* handle on: a handle that is None is loaded; the first load that raises
\* ends the block with the handles set so far.
\* loaded: the handles whose load ran and returned in the call.
LoadSteps(i, g, bad) ==
    IF i > Len(HandleOrder) THEN [g |-> g, raised |-> FALSE, loaded |-> {}]
    ELSE LET h == HandleOrder[i]
         IN  IF g[h] THEN LoadSteps(i + 1, g, bad)
             ELSE IF h \in bad THEN [g |-> g, raised |-> TRUE, loaded |-> {}]
             ELSE [LoadSteps(i + 1, [g EXCEPT ![h] = TRUE], bad)
                     EXCEPT !.loaded = @ \cup {h}]

\* fusion.py:27-43 with the tuple of the except branch written to the globals
load_all_reset(g, bad) ==
    LET s == LoadSteps(1, g, bad)
    IN  IF s.raised
        THEN [g |-> ExceptTuple(s.g), ret |-> ExceptTuple(s.g), loaded |-> s.loaded]
        ELSE [g |-> s.g, ret |-> s.g, loaded |-> s.loaded]

\* fusion.py:27-43  load_all, run by one thread alone: the globals after the
\* call and the tuple returned.
load_all(g, bad) ==
    LET s == LoadSteps(1, g, bad)
    IN  [g |-> s.g, ret |-> IF s.raised THEN ExceptTuple(s.g) ELSE s.g,
         loaded |-> s.loaded]

----------------------------------------------------------------------------
\* The external predictors: opaque, deterministic functions of their input.

\* fusion.py:54  model.predict(w): the sequence model, built for (T, F)
\* windows (training/train_lstm.py:37), on a batch of one window.
SeqModel(a) ==
    IF a.shape # <<T, F>> THEN Raise("ValueError")
    ELSE Return((a.data[T][1] + 3 * a.data[T][F] + 7 * a.data[1][1]) % (One + 1))

\* fusion.py:65-67  ae.predict(w) and the mean squared reconstruction error,
\* for the autoencoder built for (T, F) windows (training/train_ae.py:44).
AeScores == <<0, 5, 10, 15, 20, 30, 50, 1000>>
AeMse(a) ==
    IF a.shape # <<T, F>> THEN Raise("ValueError")
    ELSE Return(AeScores[((a.data[T][2] + a.data[1][2]) % Len(AeScores)) + 1])

\* fusion.py:79-84  the 20 feature names, sensor-major
sensor_names == <<"temperature", "vibration", "rpm", "humidity">>
stat_names == <<"mean", "std", "min", "max", "median">>
feature_names ==
    [k \in 1..(Len(sensor_names) * Len(stat_names)) |->
        <<sensor_names[((k - 1) \div Len(stat_names)) + 1],
          stat_names[((k - 1) % Len(stat_names)) + 1]>>]
FeatureSet == {feature_names[k] : k \in 1..Len(feature_names)}

RECURSIVE WeightedSum(_, _)
WeightedSum(x, k) == IF k = 0 THEN 0 ELSE k * x[k] + WeightedSum(x, k - 1)

\* fusion.py:94  rf.predict_proba(X)[0, 1] on a numeric row of 20 features
RfModel(x) == (17 * WeightedSum(x, Len(x)) + 123) % (One + 1)

\* fusion.py:109  1 / (1 + exp(-(ae_score - 0.01) * 100)), rounded to 1/One,
\* at the scores of AeScores (0, 0.005, 0.01, 0.015, 0.02, 0.03, 0.05, 1.0)
AeScaled(s) ==
    CASE s <= 0 -> 269
      [] s <= 5 -> 378
      [] s <= 10 -> Half
      [] s <= 15 -> 622
      [] s <= 20 -> 731
      [] s <= 30 -> 881
      [] s <= 50 -> 982
      [] OTHER -> One


----------------------------------------------------------------------------
\* fusion.py: the scoring functions.  Each gives [res, g, invoked]: the value
\* returned or the exception raised, the globals after the call, and the
\* predictors whose predict was called.

\* fusion.py:45-55  np.asarray of an array is the array; the batch axis
\* added at line 53 is the one SeqModel expects.
lstm_predict_prob(window, g, bad) ==
    LET l == load_all(g, bad)
    IN  IF ~l.ret["_lstm"] THEN
            [res |-> Raise("AttributeError"), g |-> l.g, invoked |-> {}]
        ELSE [res |-> SeqModel(window), g |-> l.g, invoked |-> {"lstm"}]

\* fusion.py:57-67
ae_anomaly_score(window, g, bad) ==
    LET l == load_all(g, bad)
    IN  IF ~l.ret["_ae"] THEN
            [res |-> Raise("AttributeError"), g |-> l.g, invoked |-> {}]
        ELSE [res |-> AeMse(window), g |-> l.g, invoked |-> {"ae"}]

\* fusion.py:87-89  agg_row.get(feat_name, 0.0) for each feature name
FeatureVector(agg) ==
    [k \in 1..Len(feature_names) |->
        IF feature_names[k] \in DOMAIN agg.vals THEN agg.vals[feature_names[k]]
        ELSE 0]

\* fusion.py:69-98  agg_row.get of something that is no mapping raises
\* (line 89 is outside the try); predict_proba on a row holding text raises
\* and is answered with the fallback 0.5.  fallback: the value returned is
\* the 0.5 of line 76 or 98 and not the model's output.
rf_prob_failure(agg_row, g, bad) ==
    LET l == load_all(g, bad)
    IN  IF ~l.ret["_rf"] THEN
            [res |-> Return(Half), g |-> l.g, invoked |-> {}, fallback |-> TRUE]
        ELSE IF agg_row.kind # "dict" THEN
            [res |-> Raise("AttributeError"), g |-> l.g, invoked |-> {},
             fallback |-> FALSE]
        ELSE IF \E k \in 1..Len(feature_names) : feature_names[k] \in agg_row.text
        THEN [res |-> Return(Half), g |-> l.g, invoked |-> {"rf"},
              fallback |-> TRUE]
        ELSE [res |-> Return(RfModel(FeatureVector(agg_row))), g |-> l.g,
              invoked |-> {"rf"}, fallback |-> FALSE]

\* fusion.py:112 with health_score in the place of (1 - health_score)
Fuse_health(p_lstm, health_score, ae_scaled) ==
    W_LSTM * p_lstm + W_RF * health_score + W_AE * ae_scaled

\* fusion.py:112  in units of One * One
Fuse(p_lstm, health_score, ae_scaled) ==
    W_LSTM * p_lstm + W_RF * (One - health_score) + W_AE * ae_scaled

\* fusion.py:111
HealthScore(p_rf) == One - p_rf

\* fusion.py:109-120  the response built from the three model outputs
FusionResponse(p_lstm, p_rf, ae_score) ==
    LET ae_scaled == AeScaled(ae_score)
        health_score == HealthScore(p_rf)
    IN  [failure_prob_lstm |-> p_lstm,
         prob_failure_rf |-> p_rf,
         ae_score |-> ae_score,
         ae_scaled |-> ae_scaled,
         health_score |-> health_score,
         fused_risk |-> Fuse(p_lstm, health_score, ae_scaled)]

\* fusion.py:100-120  defaults: the terms of the response that are a
\* fallback value and not a model's output.
predict_fusion(window, agg_row, g, bad) ==
    The({
      IF a.res.kind = "raise" THEN
          [res |-> a.res, g |-> a.g, invoked |-> a.invoked, defaults |-> {}]
      ELSE The({
        IF b.res.kind = "raise" THEN
            [res |-> b.res, g |-> b.g, invoked |-> a.invoked \cup b.invoked,
             defaults |-> {}]
        ELSE The({
          IF c.res.kind = "raise" THEN
              [res |-> c.res, g |-> c.g,
               invoked |-> a.invoked \cup b.invoked \cup c.invoked,
               defaults |-> {}]
          ELSE [res |-> Return(FusionResponse(a.res.value, b.res.value,
                                              c.res.value)),
                g |-> c.g,
                invoked |-> a.invoked \cup b.invoked \cup c.invoked,
                defaults |-> IF b.fallback THEN {"rf"} ELSE {}]
          : c \in {ae_anomaly_score(window, b.g, bad)}})
        : b \in {rf_prob_failure(agg_row, a.g, bad)}})
      : a \in {lstm_predict_prob(window, g, bad)}})

----------------------------------------------------------------------------
\* api/app/services/predict.py: the service wrapper

NoArray == [shape |-> <<>>, data |-> <<>>]

\* What a call did before it answered: whether zero rows were stacked,
\* whether a slice was taken, whether predict_fusion was called and on which
\* array, the predictors whose predict was called, and the terms of the
\* response that are a fallback value and not a model's output.
NoTrace == [padded |-> FALSE, truncated |-> FALSE, scored |-> FALSE,
            model_input |-> NoArray, invoked |-> {}, defaults |-> {}]

Terms == {"lstm", "rf", "ae"}

\* predict.py:33-41
NotAvailableResponse ==
    [error |-> "Fusion model not available",
     failure_prob_lstm |-> Half,
     prob_failure_rf |-> Half,
     ae_score |-> Half,
     ae_scaled |-> Half,
     health_score |-> Half,
     fused_risk |-> Half * One]

\* predict.py:65-73 with the fused risk of the response's ae_score
ErrorResponse_raw(e) ==
    [error |-> e,
     failure_prob_lstm |-> Half,
     prob_failure_rf |-> Half,
     ae_score |-> One,
     ae_scaled |-> Half,
     health_score |-> Half,
     fused_risk |-> Fuse(Half, Half, One)]

\* predict.py:65-73  (ae_score is 1.0 here)
ErrorResponse(e) ==
    [error |-> e,
     failure_prob_lstm |-> Half,
     prob_failure_rf |-> Half,
     ae_score |-> One,
     ae_scaled |-> Half,
     health_score |-> Half,
     fused_risk |-> Half * One]

\* predict.py:43-60  the body of the try block
TryBody(wd, ad, g, bad) ==
    The({
      IF c.kind = "raise" THEN [res |-> c, g |-> g, trace |-> NoTrace]
      ELSE The({
        IF s.res.kind = "raise" THEN
            [res |-> s.res, g |-> g,
             trace |-> [NoTrace EXCEPT !.padded = s.padded,
                                       !.truncated = s.truncated]]
        ELSE The({
          [res |-> f.res, g |-> f.g,
           trace |-> [padded |-> s.padded, truncated |-> s.truncated,
                      scored |-> TRUE, model_input |-> s.res.value,
                      invoked |-> f.invoked, defaults |-> f.defaults]]
          : f \in {predict_fusion(s.res.value, ad, g, bad)}})
        : s \in {AdaptShape(c.value)}})
      : c \in {np_array(wd)}})

\* predict.py:21-60 without the except clause of lines 62-73
predict_from_window_and_agg_nocatch(wd, ad, imp, g, bad) ==
    IF ~imp THEN [res |-> Return(NotAvailableResponse), g |-> g,
                  trace |-> [NoTrace EXCEPT !.defaults = Terms]]
    ELSE TryBody(wd, ad, g, bad)

\* predict.py:21-73
predict_from_window_and_agg(wd, ad, imp, g, bad) ==
    IF ~imp THEN [res |-> Return(NotAvailableResponse), g |-> g,
                  trace |-> [NoTrace EXCEPT !.defaults = Terms]]
    ELSE The({IF r.res.kind = "raise"
              THEN [r EXCEPT !.res = Return(ErrorResponse(r.res.exc)),
                             !.trace.defaults = Terms]
              ELSE r
              : r \in {TryBody(wd, ad, g, bad)}})

----------------------------------------------------------------------------
\* api/preprocessing/preprocess.py: the preparation run.
\*
\* A sensor value is an integer (of its unit) or NaN; a cell is
\* [nan, v].  A frame is a sequence of rows.  The rows of a device's raw
\* frame are its readings [timestamp (seconds), device_id, device_type,
\* cells (one per channel of AGG_FEATURES), label]; the rows of a resampled
\* frame are its bins [bin (minute), device_id, device_type, cells, label].

NaN == [nan |-> TRUE, v |-> 0]
Num(x) == [nan |-> FALSE, v |-> x]

Channels == 1..F

Max(S) == CHOOSE x \in S : \A y \in S : y <= x
Min(S) == CHOOSE x \in S : \A y \in S : x <= y

RECURSIVE SumTo(_, _, _)
\* f[a] + ... + f[b]
SumTo(f, a, b) == IF a > b THEN 0 ELSE f[a] + SumTo(f, a + 1, b)

\* pandas' mean of a group: the mean of its values that are present
MeanPresent(cs) ==
    The({ IF P = {} THEN NaN
          ELSE Num(SumTo([i \in DOMAIN cs |-> IF i \in P THEN cs[i].v ELSE 0],
                         1, Len(cs)) \div Cardinality(P))
          : P \in {{i \in DOMAIN cs : ~cs[i].nan}} })

\* The readings of frame df whose minute is b, from row i on, in df's order
RECURSIVE RowsIn(_, _, _)
RowsIn(df, b, i) ==
    IF i > Len(df) THEN <<>>
    ELSE IF df[i].timestamp \div BinSeconds = b
         THEN <<df[i]>> \o RowsIn(df, b, i + 1)
         ELSE RowsIn(df, b, i + 1)

\* preprocess.py:31 with the bin's first label in the place of its maximum
BinLabel_first(rs, has_label) ==
    IF ~has_label \/ rs = <<>> THEN 0 ELSE rs[1].label

\* preprocess.py:30-33  the label of a bin holding the readings rs
BinLabel(rs, has_label) ==
    IF ~has_label \/ rs = <<>> THEN 0
    ELSE Max({rs[i].label : i \in DOMAIN rs})

\* preprocess.py:21-34  one bin per minute from the minute of the earliest
\* reading to the minute of the latest
resample_device(df_dev, has_label) ==
    The({ [k \in 1..(hi - lo + 1) |->
             The({ [bin |-> lo + k - 1,
                    device_id |-> df_dev[1].device_id,
                    device_type |-> df_dev[1].device_type,
                    cells |-> [j \in Channels |->
                                 MeanPresent([i \in DOMAIN rs |-> rs[i].cells[j]])],
                    label |-> BinLabel(rs, has_label)]
                   : rs \in {RowsIn(df_dev, lo + k - 1, 1)} })]
          : lo \in {Min({df_dev[i].timestamp \div BinSeconds : i \in DOMAIN df_dev})},
            hi \in {Max({df_dev[i].timestamp \div BinSeconds : i \in DOMAIN df_dev})} })

\* The observed (non-NaN) positions of channel j in frame df
Observed(df, j) == {i \in DOMAIN df : ~df[i].cells[j].nan}

\* DataFrame.interpolate(method="linear", limit, limit_direction="both") on
\* one cell: position k of channel j, whose observed positions are obs.
\* A missing cell is filled when an observed one lies within limit positions
\* before it or after it: between two observed cells with the straight line
\* through them, outside them with the nearest observed value.
InterpolateCell(df, j, k, obs, limit) ==
    IF k \in obs \/ obs = {} THEN df[k].cells[j]
    ELSE The({
        IF ~((p > 0 /\ k - p <= limit) \/ (q <= Len(df) /\ q - k <= limit))
        THEN NaN
        ELSE IF p = 0 THEN df[q].cells[j]
        ELSE IF q > Len(df) THEN df[p].cells[j]
        ELSE Num(df[p].cells[j].v
                 + ((df[q].cells[j].v - df[p].cells[j].v) * (k - p)) \div (q - p))
        : p \in {Max({0} \cup {i \in obs : i < k})},
          q \in {Min({Len(df) + 1} \cup {i \in obs : i > k})} })

\* preprocess.py:36-38 with no limit on the run that is filled
interpolate_and_limit_unbounded(df_resampled, limit) ==
    The({ [k \in DOMAIN df_resampled |->
             [df_resampled[k] EXCEPT !.cells =
                 [j \in Channels |->
                    InterpolateCell(df_resampled, j, k, obs[j], Len(df_resampled))]]]
          : obs \in {[j \in Channels |-> Observed(df_resampled, j)]} })

\* preprocess.py:36-38  (the label column holds no NaN: line 31)
interpolate_and_limit(df_resampled, limit) ==
    The({ [k \in DOMAIN df_resampled |->
             [df_resampled[k] EXCEPT !.cells =
                 [j \in Channels |->
                    InterpolateCell(df_resampled, j, k, obs[j], limit)]]]
          : obs \in {[j \in Channels |-> Observed(df_resampled, j)]} })

\* config.py:7
AGG_FEATURES == <<"temperature", "vibration", "rpm", "humidity">>

\* preprocess.py:47  df_device[features].values
FeatureValues(df_device) == [i \in DOMAIN df_device |-> df_device[i].cells]

\* preprocess.py:56  np.count_nonzero(~np.isnan(window))
CountValid(window) ==
    SumTo([i \in DOMAIN window |->
             Cardinality({j \in DOMAIN window[i] : ~window[i][j].nan})],
          1, Len(window))

\* preprocess.py:54 with the minimum in the place of the maximum
WindowLabel_min(labels, start, window_size) ==
    Min({labels[start + i] : i \in 1..window_size})

\* preprocess.py:54  labels[start:start+window_size].max()
WindowLabel(labels, start, window_size) ==
    Max({labels[start + i] : i \in 1..window_size})

\* preprocess.py:56-57 with > in the place of >=
IsValid_strict(window, window_size, min_valid_ratio) ==
    CountValid(window) * One > min_valid_ratio * (window_size * Len(window[1]))

\* preprocess.py:56-57 with the test turned round
IsValid_below(window, window_size, min_valid_ratio) ==
    CountValid(window) * One <= min_valid_ratio * (window_size * Len(window[1]))

\* preprocess.py:56-57  valid_ratio >= min_valid_ratio, the ratio being
\* count / (window_size * window.shape[1]) and min_valid_ratio in units of One
IsValid(window, window_size, min_valid_ratio) ==
    CountValid(window) * One >= min_valid_ratio * (window_size * Len(window[1]))

\* preprocess.py:52 with the last start offset left out
LastStart_short(n, window_size) == n - window_size - 1

\* preprocess.py:52  range(0, n - window_size + 1): the last start offset
LastStart(n, window_size) == n - window_size

RECURSIVE ScanWindows(_, _, _, _, _)
\* preprocess.py:52-59  the loop from offset start on: the kept windows and
\* their labels, in the order of their offsets
ScanWindows(arr, labels, start, window_size, min_valid_ratio) ==
    IF start > LastStart(Len(arr), window_size) THEN <<>>
    ELSE The({
        (IF IsValid(window, window_size, min_valid_ratio)
         THEN <<[window |-> window,
                 lab |-> WindowLabel(labels, start, window_size)]>>
         ELSE <<>>)
        \o ScanWindows(arr, labels, start + 1, window_size, min_valid_ratio)
        : window \in {[i \in 1..window_size |-> arr[start + i]]} })

\* preprocess.py:40-62  the pair (windows, labels); an array is [shape, data]
extract_windows(df_device, window_size, min_valid_ratio) ==
    The({
        IF kept = <<>>
        THEN [windows |-> [shape |-> <<0, window_size, Len(AGG_FEATURES)>>,
                           data |-> <<>>],
              labels |-> <<>>]
        ELSE [windows |-> [shape |-> <<Len(kept), window_size, Len(kept[1].window[1])>>,
                           data |-> [i \in DOMAIN kept |-> kept[i].window]],
              labels |-> [i \in DOMAIN kept |-> kept[i].lab]]
        : kept \in {ScanWindows(FeatureValues(df_device),
                                [i \in DOMAIN df_device |-> df_device[i].label],
                                0, window_size, min_valid_ratio)} })

RECURSIVE Bisect(_, _, _)
\* the integer square root of v, between lo and hi
Bisect(v, lo, hi) ==
    IF hi - lo <= 1 THEN lo
    ELSE IF ((lo + hi) \div 2) * ((lo + hi) \div 2) <= v
         THEN Bisect(v, (lo + hi) \div 2, hi)
         ELSE Bisect(v, lo, (lo + hi) \div 2)

Sqrt(v) == Bisect(v, 0, v + 1)

\* The k-th smallest (k >= 1) of the values f[i], i \in W
OrderStat(f, W, k) ==
    Min({v \in {f[i] : i \in W} : Cardinality({i \in W : f[i] <= v}) >= k})

\* pandas' rolling statistics of one window: f holds the values, W the
\* positions of the window that are populated and c = |W| >= 2 their number
RollStats(f, W, c) ==
    The({ [mean |-> Num(sum \div c),
           std |-> Num(Sqrt((c * SumTo([i \in DOMAIN f |->
                                          IF i \in W THEN f[i] * f[i] ELSE 0],
                                       1, Len(f))
                             - sum * sum) \div (c * (c - 1)))),
           min |-> Num(OrderStat(f, W, 1)),
           max |-> Num(OrderStat(f, W, c)),
           median |-> Num((OrderStat(f, W, (c + 1) \div 2)
                           + OrderStat(f, W, (c \div 2) + 1)) \div 2)]
          : sum \in {SumTo([i \in DOMAIN f |-> IF i \in W THEN f[i] ELSE 0],
                           1, Len(f))} })

AllMissing == [mean |-> NaN, std |-> NaN, min |-> NaN, max |-> NaN, median |-> NaN]

\* preprocess.py:71 with every value of the window required
min_periods_all(window_size) == window_size

\* preprocess.py:71  min_periods = int(WINDOW_SIZE * 0.5)
min_periods(window_size) == window_size \div 2

\* preprocess.py:71-78  the five statistics of channel j at row k: over the
\* trailing window of window_size rows that ends at row k
Rolling(df_device, j, k, window_size) ==
    The({ IF Cardinality(W) < min_periods(window_size) THEN AllMissing
          ELSE RollStats([i \in DOMAIN df_device |-> df_device[i].cells[j].v],
                         W, Cardinality(W))
          : W \in {{i \in DOMAIN df_device :
                      /\ i > k - window_size
                      /\ i <= k
                      /\ ~df_device[i].cells[j].nan}} })

ChannelOf(name) == CHOOSE j \in DOMAIN AGG_FEATURES : AGG_FEATURES[j] = name

\* preprocess.py:64-87  one row per row of df_device: the index column of
\* line 79, the twenty statistic columns, and the columns of lines 81-86
aggregate_features(df_device) ==
    [k \in DOMAIN df_device |->
        The({ [index |-> k - 1,
               stats |-> [n \in FeatureSet |-> roll[ChannelOf(n[1])][n[2]]],
               device_id |-> df_device[1].device_id,
               device_type |-> df_device[1].device_type,
               label |-> df_device[k].label]
              : roll \in {[j \in Channels |-> Rolling(df_device, j, k, T)]} })]

----------------------------------------------------------------------------
\* The normalization state of preprocess.py:117-121: a SimpleImputer
\* (strategy "median") and a RobustScaler.  A payload X is a sequence of rows
\* of cells.  The parameters are in the unit of the sensor values; a scaled
\* value is in units of One.  Every channel of the data the state is fit on
\* is taken to hold an observed value.

Unfit == [fitted |-> FALSE, n_features_in |-> 0,
          statistics |-> <<>>, center |-> <<>>, scale |-> <<>>]

\* fits and transforms count the calls made on the state so far
NoNorm == [imputer |-> Unfit, scaler |-> Unfit, fits |-> 0, transforms |-> 0]

\* The median of the populated values of column j of X
ColumnMedian(X, j) ==
    The({ (OrderStat([i \in DOMAIN X |-> X[i][j].v], W, (Cardinality(W) + 1) \div 2)
           + OrderStat([i \in DOMAIN X |-> X[i][j].v], W, (Cardinality(W) \div 2) + 1))
          \div 2
          : W \in {{i \in DOMAIN X : ~X[i][j].nan}} })

\* np.nanpercentile, linear interpolation: quarter q4 (1 or 3) of column j
ColumnQuartile(X, j, q4) ==
    The({ The({ IF r = 0 THEN lo
                ELSE lo + ((OrderStat([i \in DOMAIN X |-> X[i][j].v], W,
                                      (((Cardinality(W) - 1) * q4) \div 4) + 2)
                            - lo) * r) \div 4
                : lo \in {OrderStat([i \in DOMAIN X |-> X[i][j].v], W,
                                    (((Cardinality(W) - 1) * q4) \div 4) + 1)},
                  r \in {((Cardinality(W) - 1) * q4) % 4} })
          : W \in {{i \in DOMAIN X : ~X[i][j].nan}} })

\* preprocess.py:120  SimpleImputer.fit: the per-column medians
imputer_fit(X) ==
    [fitted |-> TRUE, n_features_in |-> Len(X[1]),
     statistics |-> [j \in DOMAIN X[1] |-> ColumnMedian(X, j)],
     center |-> <<>>, scale |-> <<>>]

\* preprocess.py:139,151  SimpleImputer.transform
imputer_transform(imputer, X) ==
    IF ~imputer.fitted THEN Raise("NotFittedError")
    ELSE IF X = <<>> THEN Raise("ValueError")
    ELSE IF Len(X[1]) # imputer.n_features_in THEN Raise("ValueError")
    ELSE Return([i \in DOMAIN X |-> [j \in DOMAIN X[i] |->
                   IF X[i][j].nan THEN Num(imputer.statistics[j]) ELSE X[i][j]]])

\* preprocess.py:121  RobustScaler.fit: the per-column median and
\* interquartile range (a range of zero scales by 1.0)
scaler_fit(X) ==
    [fitted |-> TRUE, n_features_in |-> Len(X[1]),
     statistics |-> <<>>,
     center |-> [j \in DOMAIN X[1] |-> ColumnMedian(X, j)],
     scale |-> [j \in DOMAIN X[1] |->
                  The({ IF iqr = 0 THEN 1 ELSE iqr
                        : iqr \in {ColumnQuartile(X, j, 3) - ColumnQuartile(X, j, 1)} })]]

\* preprocess.py:140,152  RobustScaler.transform
scaler_transform(scaler, X) ==
    IF ~scaler.fitted THEN Raise("NotFittedError")
    ELSE IF X = <<>> THEN Raise("ValueError")
    ELSE IF Len(X[1]) # scaler.n_features_in THEN Raise("ValueError")
    ELSE Return([i \in DOMAIN X |-> [j \in DOMAIN X[i] |->
                   Num(((X[i][j].v - scaler.center[j]) * One)
                       \div scaler.scale[j])]])

\* preprocess.py:139-140, 151-152 with an unfit state fit on the payload
transform_autofit(state, X) ==
    The({ The({ IF imp.kind = "raise" THEN imp
                ELSE scaler_transform(
                         IF state.scaler.fitted THEN state.scaler
                         ELSE scaler_fit(imp.value),
                         imp.value)
                : imp \in {imputer_transform(imputer, X)} })
          : imputer \in {IF state.imputer.fitted \/ X = <<>> THEN state.imputer
                         ELSE imputer_fit(X)} })

\* preprocess.py:139-140, 151-152  imputation, then scaling
transform(state, X) ==
    The({ IF imp.kind = "raise" THEN imp
          ELSE scaler_transform(state.scaler, imp.value)
          : imp \in {imputer_transform(state.imputer, X)} })

----------------------------------------------------------------------------
\* The requests the scoring service is given

\* A window of r rows and f columns with pairwise distinct non-zero rows.
MkWindow(r, f, base) == [i \in 1..r |-> [j \in 1..f |-> base + 8 * i + j]]

\* The same with the last row one cell short: a ragged list of lists.
MkRagged(r, f) ==
    [i \in 1..r |-> [j \in 1..(IF i = r THEN f - 1 ELSE f) |-> 8 * i + j]]

\* 0 and 2^24: above 2^24 not every integer is a float32
Bases == {0, 16777216}

Windows ==
    {MkWindow(r, F, b) : r \in 0..(T + MaxExtra), b \in Bases}
    \cup {MkWindow(r, f, 0) : r \in 1..(T + MaxExtra), f \in {F - 1, F + 1}}
    \cup {MkRagged(r, F) : r \in {2, T}}

WellFormedWindow(w) == Len(w) >= 1 /\ IsRectangular(w) /\ Len(w[1]) = F

FeatureIndex(n) == CHOOSE k \in 1..Len(feature_names) : feature_names[k] = n

AggFull == [kind |-> "dict", vals |-> [n \in FeatureSet |-> 2 * FeatureIndex(n)],
            text |-> {}]
AggPartial ==
    [kind |-> "dict",
     vals |-> [n \in {m \in FeatureSet : m[1] = "temperature"} |-> FeatureIndex(n)],
     text |-> {}]
AggText == [AggFull EXCEPT !.text = {<<"rpm", "mean">>}]
AggList == [kind |-> "list", vals |-> <<>>, text |-> {}]
Aggs == {AggFull, AggPartial, AggText, AggList}

WellFormedAgg(a) == a.kind = "dict" /\ a.text = {}

Pending == [res |-> [kind |-> "pending"], trace |-> NoTrace]

----------------------------------------------------------------------------
\* The scoring service: one process, one request at a time

InitThreads ==
    /\ tpc = [t \in 1..NThreads |-> [at |-> "idle", i |-> 0]]
    /\ tret = [t \in 1..NThreads |-> NoneLoaded]
    /\ inits = [h \in HandleSet |-> 0]

InitRisk ==
    /\ triple = [sequence_prob |-> 0, tabular_prob |-> 0, ae_scaled |-> 0]
    /\ dpc = "start"
    /\ risk_score = 0
    /\ level = "none"

\* The rows of the CSV file in file order: the readings of the last device
\* come first
RECURSIVE RowsOfFirst(_, _)
RowsOfFirst(devs, d) ==
    IF d = 0 THEN <<>> ELSE devs[d] \o RowsOfFirst(devs, d - 1)

\* preprocess.py:16  pd.read_csv
read_csv(file) == RowsOfFirst(file.devices, Len(file.devices))

\* preprocess.py:18  the order of sort_values(["device_id","timestamp"]),
\* which is stable: rows of equal keys keep their order
NotAfter(frame, j, i) ==
    \/ frame[j].device_id < frame[i].device_id
    \/ /\ frame[j].device_id = frame[i].device_id
       /\ \/ frame[j].timestamp < frame[i].timestamp
          \/ frame[j].timestamp = frame[i].timestamp /\ j <= i

\* preprocess.py:18  sort_values(...).reset_index(drop=True): row i goes to
\* the position that counts the rows not after it
sort_values(frame) ==
    The({ [p \in DOMAIN frame |-> frame[CHOOSE i \in DOMAIN frame : rank[i] = p]] :
          rank \in {[i \in DOMAIN frame |->
                       Cardinality({j \in DOMAIN frame : NotAfter(frame, j, i)})]} })

\* preprocess.py:14-19
load_data(csv_path) == sort_values(read_csv(csv_path))

\* preprocess.py:91  df["device_id"].unique(): the ids in order of appearance
unique(frame) ==
    LET First(i) == \A j \in 1..(i - 1) : frame[j].device_id # frame[i].device_id
    IN The({ [p \in 1..Cardinality(firsts) |->
                frame[CHOOSE i \in firsts :
                        Cardinality({j \in firsts : j <= i}) = p].device_id] :
             firsts \in {{i \in DOMAIN frame : First(i)}} })

df_dev_all(frame, device) == frame

\* preprocess.py:99  df[df["device_id"] == dev]
df_dev(frame, device) ==
    LET OfDevice(r) == r.device_id = device
    IN SelectSeq(frame, OfDevice)

\* preprocess.py:124-154  OUT_DIR before a run: no file; windows and
\* labels are the contents of windows.npy and labels.npy once written
NoArtifacts == [files |-> {}, windows |-> NoArray, labels |-> <<>>]

\* api.py:91  datetime.now(timezone.utc) when the service starts, in minutes
\* since 2024-01-01T00:00Z (a day of December 2024)
ClockStart == 500000

NoRequest == [route |-> "none"]
NoResponse == [status |-> 0]

\* No HTTP request has been served
InitApiIdle ==
    /\ clients_col = {}
    /\ metrics_col = <<>>
    /\ coll = <<>>
    /\ clock = ClockStart
    /\ request = NoRequest
    /\ response = NoResponse
    /\ served = 0

\* no preparation run is under way
InitPrepIdle ==
    /\ dataset = [has_label |-> TRUE, devices |-> <<>>]
    /\ df_main = <<>>
    /\ ppc = "idle"
    /\ dev = 0
    /\ df_res = <<>>
    /\ windows = NoArray
    /\ win_labels = <<>>
    /\ all_windows = <<>>
    /\ all_labels = <<>>
    /\ agg_rows = <<>>
    /\ concat_for_scaler = <<>>
    /\ norm = NoNorm
    /\ windows_scaled = NoArray
    /\ agg_df = <<>>
    /\ artifacts = NoArtifacts
    /\ perr = "none"

Init ==
    /\ imported \in BOOLEAN
    \* with the import of line 16 failed, no artifact is ever opened
    /\ broken \in (IF imported THEN SUBSET HandleSet ELSE {{}})
    /\ handles = NoneLoaded
    /\ window_data \in Windows
    /\ agg_data \in Aggs
    /\ outcome = Pending
    /\ calls = 0
    /\ InitThreads
    /\ InitRisk
    /\ InitPrepIdle
    /\ InitApiIdle

\* routes.py:62  one call of predict_from_window_and_agg on the request
Score ==
    /\ calls < MaxCalls
    /\ \E r \in {predict_from_window_and_agg(window_data, agg_data, imported,
                                            handles, broken)} :
           /\ outcome' = [res |-> r.res, trace |-> r.trace]
           /\ handles' = r.g
    /\ calls' = calls + 1
    /\ UNCHANGED <<imported, broken, window_data, agg_data, threadVars, riskVars,
                   prepVars, apiVars>>

Next == Score

Spec == Init /\ [][Next]_vars


----------------------------------------------------------------------------
\* load_all under threads: NThreads callers make their first call of
\* load_all together.  A step is one statement of fusion.py:29-43; between
\* the test of a handle, the load and the assignment another thread may run.

At(a, i) == [at |-> a, i |-> i]

InitLoad ==
    /\ imported = TRUE
    /\ broken \in SUBSET HandleSet
    /\ handles = NoneLoaded
    /\ window_data = <<>>
    /\ agg_data = AggFull
    /\ outcome = Pending
    /\ calls = 0
    /\ tpc = [t \in 1..NThreads |-> At("idle", 0)]
    /\ tret = [t \in 1..NThreads |-> NoneLoaded]
    /\ inits = [h \in HandleSet |-> 0]
    /\ InitRisk
    /\ InitPrepIdle
    /\ InitApiIdle

\* after the i-th handle: the next test, or the return of line 43
After(i) == IF i < Len(HandleOrder) THEN At("check", i + 1) ELSE At("return", 0)

\* load_all touches the handles only
LoadFrame ==
    UNCHANGED <<imported, broken, window_data, agg_data, outcome, calls, riskVars,
                prepVars, apiVars>>

\* fusion.py:27-29  a caller enters load_all
Enter(t) ==
    /\ tpc[t].at = "idle"
    /\ tpc' = [tpc EXCEPT ![t] = At("check", 1)]
    /\ UNCHANGED <<handles, tret, inits>>
    /\ LoadFrame

\* fusion.py:30,32,34,36,38  if <handle> is None
Check(t) ==
    /\ tpc[t].at = "check"
    /\ tpc' = [tpc EXCEPT ![t] = IF handles[HandleOrder[tpc[t].i]]
                                 THEN After(tpc[t].i)
                                 ELSE At("load", tpc[t].i)]
    /\ UNCHANGED <<handles, tret, inits>>
    /\ LoadFrame

\* fusion.py:31,33,35,37,39  the right-hand side: load_model / joblib.load
Load(t) ==
    /\ tpc[t].at = "load"
    /\ IF HandleOrder[tpc[t].i] \in broken
       THEN /\ tpc' = [tpc EXCEPT ![t] = At("except", 0)]
            /\ UNCHANGED inits
       ELSE /\ tpc' = [tpc EXCEPT ![t] = At("store", tpc[t].i)]
            /\ inits' = [inits EXCEPT ![HandleOrder[tpc[t].i]] = @ + 1]
    /\ UNCHANGED <<handles, tret>>
    /\ LoadFrame

\* fusion.py:31,33,35,37,39  the assignment to the global
Store(t) ==
    /\ tpc[t].at = "store"
    /\ handles' = [handles EXCEPT ![HandleOrder[tpc[t].i]] = TRUE]
    /\ tpc' = [tpc EXCEPT ![t] = After(tpc[t].i)]
    /\ UNCHANGED <<tret, inits>>
    /\ LoadFrame

\* fusion.py:43
ReturnAll(t) ==
    /\ tpc[t].at = "return"
    /\ tret' = [tret EXCEPT ![t] = handles]
    /\ tpc' = [tpc EXCEPT ![t] = At("done", 0)]
    /\ UNCHANGED <<handles, inits>>
    /\ LoadFrame

\* fusion.py:40-42
ReturnExcept(t) ==
    /\ tpc[t].at = "except"
    /\ tret' = [tret EXCEPT ![t] = ExceptTuple(handles)]
    /\ tpc' = [tpc EXCEPT ![t] = At("done", 0)]
    /\ UNCHANGED <<handles, inits>>
    /\ LoadFrame

NextLoad ==
    \/ \E t \in 1..NThreads : Enter(t)
    \/ \E t \in 1..NThreads : Check(t)
    \/ \E t \in 1..NThreads : Load(t)
    \/ \E t \in 1..NThreads : Store(t)
    \/ \E t \in 1..NThreads : ReturnAll(t)
    \/ \E t \in 1..NThreads : ReturnExcept(t)

SpecLoad == InitLoad /\ [][NextLoad]_vars

----------------------------------------------------------------------------
\* fusion.py: load_all called again and again by one thread, the artifact
\* files coming and going between the calls

\* The calls of load_all one run makes
MaxLoads == 3

InitCalls ==
    /\ imported = TRUE
    /\ broken = {}
    /\ handles = NoneLoaded
    /\ window_data = <<>>
    /\ agg_data = AggFull
    /\ outcome = Pending
    /\ calls = 0
    /\ InitThreads
    /\ InitRisk
    /\ InitPrepIdle
    /\ InitApiIdle

\* fusion.py:27-43  one whole call of load_all, with the files of bad
\* missing or corrupt at the time of the call; tret[1] is the tuple returned,
\* inits counts the loads that returned
CallLoadAll ==
    /\ calls < MaxLoads
    /\ \E bad \in SUBSET HandleSet :
          /\ broken' = bad
          /\ \E r \in {load_all(handles, bad)} :
                /\ handles' = r.g
                /\ tret' = [tret EXCEPT ![1] = r.ret]
                /\ inits' = [h \in HandleSet |->
                               inits[h] + IF h \in r.loaded THEN 1 ELSE 0]
    /\ calls' = calls + 1
    /\ UNCHANGED <<imported, window_data, agg_data, outcome, tpc, riskVars,
                   prepVars, apiVars>>

NextCalls == CallLoadAll

SpecCalls == InitCalls /\ [][NextCalls]_vars

----------------------------------------------------------------------------
\* test_fusion_demo.py: the demo fuses the three model outputs of a window
\* and assesses the risk level of the fused risk.

\* The model outputs the demo is run on: GridSteps + 1 evenly spaced values
\* of [0, 1] for each of sequence_prob, tabular_prob and ae_scaled.
ProbGrid == {(k * One) \div GridSteps : k \in 0..GridSteps}

\* test_fusion_demo.py:88-94 with <= in the place of the first <
risk_level_le(score) ==
    IF score <= LowBelow * One THEN "LOW"
    ELSE IF score < MediumBelow * One THEN "MEDIUM"
    ELSE "HIGH"

\* test_fusion_demo.py:88-94  (score in units of One * One)
risk_level(score) ==
    IF score < LowBelow * One THEN "LOW"
    ELSE IF score < MediumBelow * One THEN "MEDIUM"
    ELSE "HIGH"

InitDemo ==
    /\ imported = TRUE
    /\ broken = {}
    /\ handles = NoneLoaded
    /\ window_data = <<>>
    /\ agg_data = AggFull
    /\ outcome = Pending
    /\ calls = 0
    /\ InitThreads
    /\ triple \in [sequence_prob : ProbGrid, tabular_prob : ProbGrid,
                   ae_scaled : ProbGrid]
    /\ dpc = "start"
    /\ risk_score = 0
    /\ level = "none"
    /\ InitPrepIdle
    /\ InitApiIdle

DemoFrame ==
    UNCHANGED <<imported, broken, handles, window_data, agg_data, outcome,
                calls, threadVars, triple, prepVars, apiVars>>

\* fusion.py:111-112, as run by test_fusion_demo.py:57,74,85-86
FuseStep ==
    /\ dpc = "start"
    /\ risk_score' = Fuse(triple.sequence_prob, HealthScore(triple.tabular_prob),
                          triple.ae_scaled)
    /\ dpc' = "fused"
    /\ UNCHANGED level
    /\ DemoFrame

\* test_fusion_demo.py:96-97
Assess ==
    /\ dpc = "fused"
    /\ level' = risk_level(risk_score)
    /\ dpc' = "assessed"
    /\ UNCHANGED risk_score
    /\ DemoFrame

NextDemo == FuseStep \/ Assess

SpecDemo == InitDemo /\ [][NextDemo]_vars

----------------------------------------------------------------------------
\* preprocess.py:89-155  main, the preparation run: one step per stage

\* The readings of one device: one reading at second 0 of each of the
\* minutes 0..n-1 and a second reading, of label lab, at second 30 of minute
\* labAt; every other reading has label 0.  The minutes gapAt..gapAt+gapLen-1
\* are a gap: their readings are absent from the file (kind "omit"), or
\* present with blank cells in every channel ("blank_all") or in the first
\* ("blank_one").
MkDevice(id, n, gapAt, gapLen, kind, labAt, lab) ==
    LET InGap(m) == m >= gapAt /\ m < gapAt + gapLen
        Reading(m, sec, l) ==
            [timestamp |-> BinSeconds * m + sec,
             device_id |-> id,
             device_type |-> "pump",
             cells |-> [j \in Channels |->
                          IF InGap(m) /\ (kind = "blank_all"
                                          \/ (kind = "blank_one" /\ j = 1))
                          THEN NaN
                          ELSE Num(10 * j + 2 * (m % 7) + sec \div 30)],
             label |-> l]
        Present(r) == ~(kind = "omit" /\ InGap(r.timestamp \div BinSeconds))
    IN SelectSeq([i \in 1..(n + 1) |->
                    IF i <= labAt + 1 THEN Reading(i - 1, 0, 0)
                    ELSE IF i = labAt + 2 THEN Reading(labAt, 30, lab)
                    ELSE Reading(i - 2, 0, 0)],
                 Present)

\* The numbers of minutes a device is observed for
Lengths == {1, T \div 2, T - 1, T, T + MaxExtra}

\* The gaps: none; one short enough to be filled; gaps of 12 and of 13 bins
\* more than are filled from one side or from both (with 12 bins missing a
\* window holds 4/5 of its cells); one that leaves fewer than T/2 values in
\* a trailing window
GapLengths == {0, Limit, Limit + 13, 2 * Limit + 12, 2 * Limit + 13, T - Limit}

\* The label 2 at the first minute, or the label 1 at the last; a gap ends
\* before the last minute
Devices ==
    {MkDevice(1, c.n, c.gapAt, c.gapLen, c.kind,
              IF c.atEnd THEN c.n - 1 ELSE 0, IF c.atEnd THEN 1 ELSE 2) :
        c \in {c \in [n : Lengths, gapAt : {0, 1}, gapLen : GapLengths,
                      kind : {"omit", "blank_all", "blank_one"},
                      atEnd : BOOLEAN] : c.gapAt + c.gapLen < c.n}}

PlainDevices ==
    {MkDevice(1, n, 0, 0, "omit", IF atEnd THEN n - 1 ELSE 0,
              IF atEnd THEN 1 ELSE 2) : n \in Lengths, atEnd \in BOOLEAN}

\* A second, shorter device
OtherDevice == MkDevice(2, T \div 2, 0, 0, "omit", 1, 1)

\* The files the run is started on: no reading at all, one device, or two;
\* with or without a label column
Datasets ==
    {[has_label |-> TRUE, devices |-> <<>>]}
    \cup {[has_label |-> TRUE, devices |-> <<d>>] : d \in Devices}
    \cup {[has_label |-> FALSE, devices |-> <<d>>] : d \in PlainDevices}
    \cup {[has_label |-> TRUE, devices |-> <<d, OtherDevice>>] : d \in PlainDevices}

InitPrep ==
    /\ imported = TRUE
    /\ broken = {}
    /\ handles = NoneLoaded
    /\ window_data = <<>>
    /\ agg_data = AggFull
    /\ outcome = Pending
    /\ calls = 0
    /\ InitThreads
    /\ InitRisk
    /\ dataset \in Datasets
    /\ df_main = <<>>
    /\ ppc = "start"
    /\ dev = 0
    /\ df_res = <<>>
    /\ windows = NoArray
    /\ win_labels = <<>>
    /\ all_windows = <<>>
    /\ all_labels = <<>>
    /\ agg_rows = <<>>
    /\ concat_for_scaler = <<>>
    /\ norm = NoNorm
    /\ windows_scaled = NoArray
    /\ agg_df = <<>>
    /\ artifacts = NoArtifacts
    /\ perr = "none"
    /\ InitApiIdle

PrepFrame == UNCHANGED <<fusionVars, broken, handles, threadVars, riskVars, apiVars>>

\* preprocess.py:90-98  the file is read and the loop over its devices begins
LoadData ==
    /\ ppc = "start"
    /\ df_main' = load_data(dataset)
    /\ IF unique(df_main') = <<>>
       THEN ppc' = "fit" /\ dev' = dev
       ELSE ppc' = "resample" /\ dev' = 1
    /\ UNCHANGED <<dataset, df_res, windows, win_labels, all_windows, all_labels,
                   agg_rows, concat_for_scaler, norm, windows_scaled, agg_df, artifacts,
                   perr>>
    /\ PrepFrame

\* preprocess.py:99-100
Resample ==
    /\ ppc = "resample"
    /\ df_res' = resample_device(df_dev(df_main, unique(df_main)[dev]),
                                 dataset.has_label)
    /\ ppc' = "interpolate"
    /\ UNCHANGED <<dataset, df_main, dev, windows, win_labels, all_windows, all_labels,
                   agg_rows, concat_for_scaler, norm, windows_scaled, agg_df, artifacts,
                   perr>>
    /\ PrepFrame

\* preprocess.py:101-102
Interpolate ==
    /\ ppc = "interpolate"
    /\ \E filled \in {interpolate_and_limit(df_res, Limit)} :
          /\ df_res' = filled
          /\ concat_for_scaler' = Append(concat_for_scaler, FeatureValues(filled))
    /\ ppc' = "windows"
    /\ UNCHANGED <<dataset, df_main, dev, windows, win_labels, all_windows, all_labels,
                   agg_rows, norm, windows_scaled, agg_df, perr>>
    /\ UNCHANGED artifacts
    /\ PrepFrame

\* preprocess.py:104-107
ExtractWindows ==
    /\ ppc = "windows"
    /\ \E r \in {extract_windows(df_res, T, MIN_VALID_RATIO)} :
          /\ windows' = r.windows
          /\ win_labels' = r.labels
          /\ IF r.windows.shape[1] * r.windows.shape[2] * r.windows.shape[3] # 0
             THEN /\ all_windows' = Append(all_windows, r.windows)
                  /\ all_labels' = Append(all_labels, r.labels)
             ELSE UNCHANGED <<all_windows, all_labels>>
    /\ ppc' = "aggregate"
    /\ UNCHANGED <<dataset, df_main, dev, df_res, agg_rows, concat_for_scaler,
                   norm, windows_scaled, agg_df, perr>>
    /\ UNCHANGED artifacts
    /\ PrepFrame

\* preprocess.py:109-110, and line 98: the next device, or the end of the loop
Aggregate ==
    /\ ppc = "aggregate"
    /\ agg_rows' = Append(agg_rows, aggregate_features(df_res))
    /\ IF dev < Len(unique(df_main))
       THEN ppc' = "resample" /\ dev' = dev + 1
       ELSE ppc' = "fit" /\ dev' = dev
    /\ UNCHANGED <<dataset, df_main, df_res, windows, win_labels, all_windows, all_labels,
                   concat_for_scaler, norm, windows_scaled, agg_df, artifacts,
                   perr>>
    /\ PrepFrame

\* np.concatenate(arrays, axis=0) of preprocess.py:130-131, from the i-th on
RECURSIVE ConcatFrom(_, _)
ConcatFrom(seqs, i) ==
    IF i > Len(seqs) THEN <<>> ELSE seqs[i] \o ConcatFrom(seqs, i + 1)

\* preprocess.py:138  windows_arr.reshape(-1, nfeat): the rows of the windows
ReshapeRows(data, wlen) ==
    [r \in 1..(Len(data) * wlen) |->
        data[((r - 1) \div wlen) + 1][((r - 1) % wlen) + 1]]

\* preprocess.py:141  reshape(nsamples, wlen, nfeat)
ReshapeWindows(rows, nsamples, wlen) ==
    [w \in 1..nsamples |-> [i \in 1..wlen |-> rows[(w - 1) * wlen + i]]]

\* preprocess.py:150  the statistic columns, in the column order of line 72
numcols ==
    [k \in 1..(Len(stat_names) * Len(AGG_FEATURES)) |->
        <<AGG_FEATURES[((k - 1) % Len(AGG_FEATURES)) + 1],
          stat_names[((k - 1) \div Len(AGG_FEATURES)) + 1]>>]

\* preprocess.py:112-125  the normalization state is fit on the channel
\* columns of every device; without a device the run ends in RuntimeError
Fit ==
    /\ ppc = "fit"
    /\ IF concat_for_scaler = <<>>
       THEN /\ perr' = "RuntimeError"
            /\ ppc' = "raised"
            /\ UNCHANGED <<norm, artifacts>>
       ELSE /\ \E concat_df \in {ConcatFrom(concat_for_scaler, 1)} :
               \E imputer \in {imputer_fit(concat_df)} :
                  norm' = [norm EXCEPT
                             !.imputer = imputer,
                             !.scaler = scaler_fit(
                                 imputer_transform(imputer, concat_df).value),
                             !.fits = @ + 1]
            /\ artifacts' = [artifacts EXCEPT
                                !.files = @ \cup {"imputer.joblib", "scaler.joblib"}]
            /\ ppc' = "transform_windows"
            /\ UNCHANGED perr
    /\ UNCHANGED <<dataset, df_main, dev, df_res, windows, win_labels, all_windows,
                   all_labels, agg_rows,
                   concat_for_scaler, windows_scaled, agg_df>>
    /\ PrepFrame

\* preprocess.py:129-144  the windows of every device are put together,
\* normalized and saved
TransformWindows ==
    /\ ppc = "transform_windows"
    /\ \E data \in {ConcatFrom([i \in DOMAIN all_windows |-> all_windows[i].data], 1)} :
       \E r \in {transform(norm, ReshapeRows(data, T))} :
          IF r.kind = "raise"
          THEN /\ perr' = r.exc
               /\ ppc' = "raised"
               /\ UNCHANGED <<windows_scaled, artifacts>>
          ELSE /\ \E scaled \in {[shape |-> <<Len(data), T, Len(AGG_FEATURES)>>,
                                  data |-> ReshapeWindows(r.value, Len(data), T)]} :
                     /\ windows_scaled' = scaled
                     /\ artifacts' = [artifacts EXCEPT
                            !.windows = scaled,
                            !.labels = ConcatFrom(all_labels, 1),
                            !.files = @ \cup {"windows.npy", "labels.npy"}]
               /\ ppc' = "transform_agg"
               /\ UNCHANGED perr
    /\ norm' = [norm EXCEPT !.transforms = @ + 1]
    /\ UNCHANGED <<dataset, df_main, dev, df_res, windows, win_labels, all_windows,
                   all_labels, agg_rows,
                   concat_for_scaler, agg_df>>
    /\ PrepFrame

\* preprocess.py:148-154  the aggregate tables are put together and their
\* statistic columns normalized
TransformAggregates ==
    /\ ppc = "transform_agg"
    /\ \E table \in {ConcatFrom(agg_rows, 1)} :
       \E r \in {transform(norm, [i \in DOMAIN table |->
                                    [k \in DOMAIN numcols |-> table[i].stats[numcols[k]]]])} :
          IF r.kind = "raise"
          THEN /\ perr' = r.exc
               /\ ppc' = "raised"
               /\ UNCHANGED <<agg_df, artifacts>>
          ELSE /\ agg_df' = [i \in DOMAIN table |->
                               [table[i] EXCEPT !.stats =
                                  [n \in FeatureSet |->
                                     r.value[i][CHOOSE k \in DOMAIN numcols :
                                                   numcols[k] = n]]]]
               /\ artifacts' = [artifacts EXCEPT !.files = @ \cup {"aggregates.csv"}]
               /\ ppc' = "done"
               /\ UNCHANGED perr
    /\ norm' = [norm EXCEPT !.transforms = @ + 1]
    /\ UNCHANGED <<dataset, df_main, dev, df_res, windows, win_labels, all_windows,
                   all_labels, agg_rows,
                   concat_for_scaler, windows_scaled>>
    /\ PrepFrame

NextPrep ==
    \/ LoadData
    \/ Resample
    \/ Interpolate
    \/ ExtractWindows
    \/ Aggregate
    \/ Fit
    \/ TransformWindows
    \/ TransformAggregates

SpecPrep == InitPrep /\ [][NextPrep]_vars

----------------------------------------------------------------------------
\* The HTTP ingestion services: the Flask service of API/api.py and the
\* FastAPI route of api/app/routes.py

\* The requests one run serves, and the samples one payload holds at most
MaxRequests == 2
MaxSamples == 2

\* The days of the months of 2024
MonthDays == <<31, 29, 31, 30, 31, 30, 31, 31, 30, 31, 30, 31>>

\* The Unix time of 2024-01-01T00:00Z, in seconds
Epoch2024 == 1704067200

\* The "timestamp" of a sample: absent, a string, or a JSON number.  A
\* string is held as its fields <<month, day, hour, minute, offset>> of a
\* date of 2024 with a UTC offset in minutes; any other text has no fields.
Absent == [t |-> "none", v |-> <<>>]
Text(fields) == [t |-> "str", v |-> fields]
Number(n) == [t |-> "num", v |-> <<n>>]

\* api.py:105, 112  dateparser.parse and datetime.fromisoformat return for
\* the text of a date that exists and raise for any other text
IsDate(fields) ==
    /\ Len(fields) = 5
    /\ fields[1] \in 1..12
    /\ fields[2] \in 1..MonthDays[fields[1]]
    /\ fields[3] \in 0..23
    /\ fields[4] \in 0..59

\* api.py:106-108, 113-115  astimezone(timezone.utc), in minutes since
\* 2024-01-01T00:00Z
AsUtc(fields) ==
    ((SumTo(MonthDays, 1, fields[1] - 1) + fields[2] - 1) * 24 + fields[3]) * 60
    + fields[4] - fields[5]

\* api.py:86-118
parse_timestamp(value, now) ==
    IF value.t = "none" THEN now
    ELSE IF value.t = "str"
         THEN IF IsDate(value.v) THEN AsUtc(value.v) ELSE now
         ELSE now

\* schemas.py:8  timestamp: datetime, a required field: pydantic takes the
\* text of a date or a number of Unix seconds and refuses anything else
datetime_valid(value) ==
    \/ value.t = "str" /\ IsDate(value.v)
    \/ value.t = "num"

datetime_parse(value) ==
    IF value.t = "str" THEN AsUtc(value.v) ELSE (value.v[1] - Epoch2024) \div 60

\* api.py:83-84  a fresh random token: the clients are numbered as created
generate_client_id(clients) == Cardinality(clients) + 1

\* The x-client-id header: absent, or a string, 0 standing for the empty one
NoHeader == [present |-> FALSE, value |-> 0]
Header(id) == [present |-> TRUE, value |-> id]

Abort(code) == [kind |-> "abort", status |-> code]

\* api.py:120-136  gives the id and collection 'clients' as it leaves it
resolve_or_create_client(x_client_id, clients, now) ==
    IF x_client_id.present /\ x_client_id.value # 0
    THEN IF \E c \in clients : c.client_id = x_client_id.value
         THEN [kind |-> "return", client_id |-> x_client_id.value, clients |-> clients]
         ELSE Abort(401)
    ELSE LET new_id == generate_client_id(clients)
         IN [kind |-> "return", client_id |-> new_id,
             clients |-> clients \cup {[client_id |-> new_id, created_at |-> now]}]

\* The timestamps samples are sent with: absent, 2024-01-05T10:30Z,
\* 2024-03-01T00:15+01:00, 2024-13-05T10:30Z, "soon", 1704070800
Timestamps ==
    {Absent, Text(<<1, 5, 10, 30, 0>>), Text(<<3, 1, 0, 15, 60>>),
     Text(<<13, 5, 10, 30, 0>>), Text(<<>>), Number(Epoch2024 + 3600)}

Samples == {[timestamp |-> ts] : ts \in Timestamps}

\* The request bodies: not JSON, a JSON scalar, an object, an array
Payloads ==
    {[kind |-> "invalid", samples |-> <<>>], [kind |-> "scalar", samples |-> <<>>]}
    \cup {[kind |-> "dict", samples |-> <<smp>>] : smp \in Samples}
    \cup UNION {{[kind |-> "list", samples |-> ss] : ss \in [1..k -> Samples]}
                : k \in 0..MaxSamples}

Headers == {NoHeader} \cup {Header(id) : id \in 0..MaxRequests}

Answer(code, id, n) == [status |-> code, client_id |-> id, inserted |-> n]

ApiFrame == UNCHANGED <<fusionVars, broken, handles, threadVars, riskVars, prepVars>>

\* api.py:143-180  POST /ingest of the Flask service; db_ok: insert_many
\* does not raise
ingest_flask ==
    /\ served < MaxRequests
    /\ \E x_client_id \in Headers, payload \in Payloads, db_ok \in BOOLEAN :
          /\ request' = [route |-> "flask", x_client_id |-> x_client_id,
                         payload |-> payload]
          /\ \E r \in {resolve_or_create_client(x_client_id, clients_col, clock)} :
                IF r.kind = "abort"
                THEN /\ response' = Answer(r.status, 0, 0)
                     /\ UNCHANGED <<clients_col, metrics_col>>
                ELSE /\ clients_col' = r.clients
                     /\ IF payload.kind \in {"invalid", "scalar"}
                        THEN /\ response' = Answer(400, 0, 0)
                             /\ UNCHANGED metrics_col
                        ELSE \E docs \in {[i \in DOMAIN payload.samples |->
                                             [timestamp |->
                                                parse_timestamp(
                                                    payload.samples[i].timestamp, clock),
                                              client_id |-> r.client_id]]} :
                                IF docs # <<>> /\ ~db_ok
                                THEN /\ response' = Answer(500, 0, 0)
                                     /\ UNCHANGED metrics_col
                                ELSE /\ metrics_col' = metrics_col \o docs
                                     /\ response' = Answer(200, r.client_id, Len(docs))
    /\ clock' = clock + 1
    /\ served' = served + 1
    /\ UNCHANGED coll
    /\ ApiFrame

\* routes.py:23-28, services/ingest.py:5-9  POST /ingest of the FastAPI
\* service: the body is validated as List[SensorPayload] before the handler
\* runs (422 when it is not)
ingest_fastapi ==
    /\ served < MaxRequests
    /\ \E payload \in Payloads, db_ok \in BOOLEAN :
          /\ request' = [route |-> "fastapi", x_client_id |-> NoHeader,
                         payload |-> payload]
          /\ IF \/ payload.kind # "list"
                \/ \E i \in DOMAIN payload.samples :
                      ~datetime_valid(payload.samples[i].timestamp)
             THEN response' = Answer(422, 0, 0) /\ UNCHANGED coll
             ELSE IF payload.samples = <<>>
             THEN response' = Answer(400, 0, 0) /\ UNCHANGED coll
             ELSE IF ~db_ok
             THEN response' = Answer(500, 0, 0) /\ UNCHANGED coll
             ELSE /\ coll' = coll \o [i \in DOMAIN payload.samples |->
                                       [timestamp |->
                                          datetime_parse(payload.samples[i].timestamp)]]
                  /\ response' = Answer(200, 0, Len(payload.samples))
    /\ clock' = clock + 1
    /\ served' = served + 1
    /\ UNCHANGED <<clients_col, metrics_col>>
    /\ ApiFrame

\* The bodies of POST /predict/fusion: with each of the keys "window" and
\* "agg" present or missing
FusionPayloads ==
    {[has_window |-> hw, has_agg |-> ha, window |-> <<<<9, 10, 11, 12>>>>, agg |-> AggFull]
       : hw \in BOOLEAN, ha \in BOOLEAN}

\* routes.py:57-63  the body of the try block
EndpointBody(payload, imp, g, bad) ==
    IF ~payload.has_window \/ ~payload.has_agg
    THEN [res |-> Raise("HTTPException(400)"), g |-> g, trace |-> NoTrace,
          invoked |-> FALSE]
    ELSE The({[res |-> r.res, g |-> r.g, trace |-> r.trace, invoked |-> TRUE]
              : r \in {predict_from_window_and_agg(payload.window, payload.agg,
                                                   imp, g, bad)}})

\* routes.py:48-65  POST /predict/fusion: whatever the try block raises,
\* an HTTPException too, is caught by the except clause of line 64
predict_fusion_endpoint ==
    /\ served < MaxRequests
    /\ \E payload \in FusionPayloads :
          /\ request' = [route |-> "predict_fusion", x_client_id |-> NoHeader,
                         payload |-> payload]
          /\ \E b \in {EndpointBody(payload, imported, handles, broken)} :
                /\ handles' = b.g
                /\ IF b.invoked
                   THEN /\ calls' = calls + 1
                        /\ outcome' = [res |-> b.res, trace |-> b.trace]
                   ELSE UNCHANGED <<calls, outcome>>
                /\ response' = Answer(IF b.res.kind = "raise" THEN 500 ELSE 200, 0, 0)
    /\ clock' = clock + 1
    /\ served' = served + 1
    /\ UNCHANGED <<imported, broken, window_data, agg_data, threadVars, riskVars,
                   prepVars, clients_col, metrics_col, coll>>

InitIngest ==
    /\ imported = TRUE
    /\ broken = {}
    /\ handles = NoneLoaded
    /\ window_data = <<>>
    /\ agg_data = AggFull
    /\ outcome = Pending
    /\ calls = 0
    /\ InitThreads
    /\ InitRisk
    /\ InitPrepIdle
    /\ clients_col \in {{}, {[client_id |-> 1, created_at |-> ClockStart - 1]}}
    /\ metrics_col = <<>>
    /\ coll = <<>>
    /\ clock = ClockStart
    /\ request = NoRequest
    /\ response = NoResponse
    /\ served = 0

NextIngest ==
    \/ ingest_flask
    \/ ingest_fastapi
    \/ predict_fusion_endpoint

SpecIngest == InitIngest /\ [][NextIngest]_vars

----------------------------------------------------------------------------
\* Properties

Answered == calls > 0
Response == outcome.res.value
Predictors == {"_lstm", "_ae", "_rf"}

\* The array predict_fusion is to be given for the request's window, when
\* the window can be made an array and adapted.
AdaptedWindow == AdaptShape(np_array(window_data).value).res.value

\* C1 (SpecLoad): however the first calls of load_all by several threads
\* interleave, each handle is loaded at most once.
C1_LoadedAtMostOnce == \A h \in HandleSet : inits[h] <= 1

\* C2 (Spec): whichever artifacts fail to load, a scoring call on a
\* well-formed window and aggregate returns a response to its caller and
\* raises nothing.
C2_NeverRaises ==
    (Answered /\ WellFormedWindow(window_data) /\ WellFormedAgg(agg_data))
        => outcome.res.kind = "return"

C2_Witness ==
    /\ Answered
    /\ imported
    /\ WellFormedWindow(window_data) /\ WellFormedAgg(agg_data)
    /\ broken = {"_ae", "_rf"}
    /\ outcome.res.kind = "return"
    /\ "error" \in DOMAIN Response

\* C3 (Spec): with exactly one predictor unavailable, the terms of the other
\* two predictors are their outputs on the adapted window and the aggregate,
\* and only the unavailable predictor's term is its neutral default.
C3_OnlyFailedTermDefaults ==
    (/\ Answered /\ imported
     /\ WellFormedWindow(window_data) /\ WellFormedAgg(agg_data)
     /\ Cardinality(broken) = 1 /\ broken \subseteq Predictors)
        => /\ outcome.res.kind = "return"
           /\ Response.failure_prob_lstm =
                 (IF "_lstm" \in broken THEN Half ELSE SeqModel(AdaptedWindow).value)
           /\ Response.prob_failure_rf =
                 (IF "_rf" \in broken THEN Half
                  ELSE RfModel(FeatureVector(agg_data)))
           /\ ("_ae" \notin broken => Response.ae_score = AeMse(AdaptedWindow).value)

\* C4 (Spec): a response with a term that is a neutral default and not a
\* predictor's output carries an error annotation.
C4_DefaultsAnnotated ==
    (Answered /\ outcome.res.kind = "return" /\ outcome.trace.defaults # {})
        => "error" \in DOMAIN Response

\* C5 (Spec): a malformed window (ragged or empty) or a malformed aggregate
\* (no mapping, or a mapping holding text) reaches the caller as an error and
\* is not answered with a response.
C5_MalformedPropagates ==
    (/\ Answered /\ imported
     /\ \/ Len(window_data) = 0
        \/ ~IsRectangular(window_data)
        \/ ~WellFormedAgg(agg_data))
        => outcome.res.kind = "raise"

\* C6 (Spec): a window whose feature count is not F, whatever its number of
\* rows, fails with an error, and nothing is padded, truncated or given to a
\* predictor.
C6_FeatureCountIsFatal ==
    (/\ Answered /\ imported
     /\ Len(window_data) >= 1 /\ IsRectangular(window_data)
     /\ Len(window_data[1]) # F)
        => /\ outcome.res.kind = "raise"
           /\ ~outcome.trace.padded
           /\ ~outcome.trace.truncated
           /\ outcome.trace.invoked = {}

\* The window the shape adaptation of a window of F columns is to give: T rows,
\* the last Min(r, T) rows of the window (as float32) in their order, after
\* T - r rows of zeros when r < T.
ExpectedRow(w, i) ==
    LET r == Len(w)
    IN  IF r < T
        THEN IF i <= T - r THEN [j \in 1..F |-> 0]
             ELSE [j \in 1..F |-> ToFloat32(w[i - (T - r)][j])]
        ELSE [j \in 1..F |-> ToFloat32(w[r - T + i][j])]

\* C7 (Spec): a window of r rows and F columns is scored as exactly T rows:
\* T - r zero rows followed by the r rows in order when r < T, the last T
\* rows in order when r > T, the window itself when r = T.
C7_ShapeAdaptation ==
    (Answered /\ imported /\ WellFormedWindow(window_data))
        => /\ outcome.trace.scored
           /\ outcome.trace.model_input.shape = <<T, F>>
           /\ Len(outcome.trace.model_input.data) = T
           /\ \A i \in 1..T :
                 outcome.trace.model_input.data[i] = ExpectedRow(window_data, i)
           /\ outcome.trace.padded = (Len(window_data) < T)
           /\ outcome.trace.truncated = (Len(window_data) > T)

C7_Witness ==
    /\ Answered /\ imported
    /\ Len(window_data) = 40 /\ WellFormedWindow(window_data)
    /\ window_data[1][1] > 16777216
    /\ outcome.trace.padded
    /\ outcome.trace.model_input.data[20] = <<0, 0, 0, 0>>
    /\ outcome.trace.model_input.data[21] # <<0, 0, 0, 0>>

\* C8 (SpecDemo): the fused risk of a triple is 0.6 * sequence_prob +
\* 0.3 * tabular_prob + 0.1 * ae_scaled, and the three weights sum to 1.
C8_FusionLaw ==
    /\ W_LSTM + W_RF + W_AE = One
    /\ dpc # "start" =>
          10 * risk_score = 6 * One * triple.sequence_prob
                            + 3 * One * triple.tabular_prob
                            + One * triple.ae_scaled
    /\ (dpc # "start" /\ triple.sequence_prob = One /\ triple.tabular_prob = 0
        /\ triple.ae_scaled = 0) => 10 * risk_score = 6 * One * One
    /\ (dpc # "start" /\ triple.sequence_prob = 0 /\ triple.tabular_prob = 0
        /\ triple.ae_scaled = 0) => risk_score = 0

C8_Witness ==
    /\ dpc = "fused"
    /\ triple = [sequence_prob |-> One, tabular_prob |-> 0, ae_scaled |-> 0]
    /\ 10 * risk_score = 6 * One * One

\* C9 (SpecDemo): the risk level is LOW exactly when fused_risk < 0.3, MEDIUM
\* exactly when 0.3 <= fused_risk < 0.6 and HIGH exactly when
\* fused_risk >= 0.6; so 0.29 is LOW, 0.30 and 0.59 are MEDIUM, 0.60 is HIGH.
C9_RiskLevels ==
    dpc = "assessed" =>
        /\ level \in {"LOW", "MEDIUM", "HIGH"}
        /\ (level = "LOW") = (10 * risk_score < 3 * One * One)
        /\ (level = "MEDIUM") = (/\ 3 * One * One <= 10 * risk_score
                                 /\ 10 * risk_score < 6 * One * One)
        /\ (level = "HIGH") = (10 * risk_score >= 6 * One * One)
        /\ (100 * risk_score = 29 * One * One => level = "LOW")
        /\ (100 * risk_score = 30 * One * One => level = "MEDIUM")
        /\ (100 * risk_score = 59 * One * One => level = "MEDIUM")
        /\ (100 * risk_score = 60 * One * One => level = "HIGH")

C9_Witness ==
    /\ dpc = "assessed"
    /\ 100 * risk_score = 30 * One * One
    /\ level = "MEDIUM"

\* C10 (Spec): every response, on the normal path and on every degraded one,
\* holds the six numeric fields and a risk_level of LOW, MEDIUM or HIGH.
C10_ResponseComplete ==
    Answered =>
        /\ outcome.res.kind = "return"
        /\ {"failure_prob_lstm", "prob_failure_rf", "ae_score", "ae_scaled",
            "health_score", "fused_risk"} \subseteq DOMAIN Response
        /\ "risk_level" \in DOMAIN Response
        /\ Response.risk_level \in {"LOW", "MEDIUM", "HIGH"}

\* C25 (Spec): every response of predict_from_window_and_agg, the two
\* neutral-default responses included, satisfies the fusion law on its own
\* fields: fused_risk = 0.6 * failure_prob_lstm + 0.3 * prob_failure_rf
\* + 0.1 * ae_scaled.
C25_LawOnEveryResponse ==
    (Answered /\ outcome.res.kind = "return") =>
        Response.fused_risk = W_LSTM * Response.failure_prob_lstm
                              + W_RF * Response.prob_failure_rf
                              + W_AE * Response.ae_scaled

\* The default response of the except clause, whose ae_score of 1.0 is not
\* the score its ae_scaled of 0.5 stands for, after the sequence model
\* failed to load.
C25_Witness ==
    /\ Answered /\ imported
    /\ "_lstm" \in broken
    /\ outcome.res.kind = "return"
    /\ "error" \in DOMAIN Response
    /\ Response.ae_score = One
    /\ Response.ae_scaled = Half
    /\ Response.fused_risk = Half * One

\* C27 (SpecCalls): in a series of load_all calls by one thread, a handle
\* that is set stays set and is not loaded again by a later call, whatever
\* load fails in it: a handle is set exactly when its one load has returned;
\* and after a call that returned all five handles, a call loads nothing and
\* returns the same five handles.
C27_SetOnceKeptForever ==
    [][calls' = calls + 1 =>
          /\ \A h \in HandleSet :
                /\ handles[h] => handles'[h] /\ inits'[h] = inits[h]
                /\ handles'[h] = (inits'[h] = 1)
                /\ inits'[h] <= 1
          /\ (calls > 0 /\ \A h \in HandleSet : tret[1][h])
                => /\ inits' = inits
                   /\ handles' = handles
                   /\ tret'[1] = tret[1]]_vars

\* The third call, made with every artifact file missing after all five
\* handles were set, each by one load: it returned the five handles.
C27_Witness ==
    /\ calls = MaxLoads
    /\ broken = HandleSet
    /\ \A h \in HandleSet : tret[1][h] /\ handles[h] /\ inits[h] = 1

----------------------------------------------------------------------------
\* Properties of the preparation run

\* The raw frame of the device the loop is at
RawFrame == dataset.devices[dev]

\* In a state where extract_windows has just returned (line 104)
WindowsExtracted == ppc = "aggregate"

\* The rows start+1..start+T of the resampled frame: the candidate window of
\* offset start
Candidate(start) == [i \in 1..T |-> df_res[start + i].cells]

\* The number of cells of the candidate of offset start that are not missing
NonMissing(start) ==
    Cardinality({<<i, j>> \in (1..T) \X Channels : ~df_res[start + i].cells[j].nan})

\* The offsets whose candidate holds at least ratio (in units of One) of
\* its T * F cells
ValidStarts(ratio) ==
    {start \in 0..(Len(df_res) - T) : NonMissing(start) * One >= ratio * (T * F)}

\* The i-th smallest element of the set S of numbers
Nth(S, i) == CHOOSE x \in S : Cardinality({y \in S : y <= x}) = i

\* C11 (SpecPrep): the label of every kept window is the maximum of the
\* labels of the bins start..start+T-1 it is made of, and so the maximum of
\* the labels of the raw readings of those minutes.
C11_WindowLabelIsMax ==
    WindowsExtracted =>
        \A i \in DOMAIN win_labels :
            LET start == Nth(ValidStarts(MIN_VALID_RATIO), i)
                inRange == {r \in DOMAIN RawFrame :
                              /\ RawFrame[r].timestamp \div BinSeconds
                                     >= df_res[start + 1].bin
                              /\ RawFrame[r].timestamp \div BinSeconds
                                     <= df_res[start + T].bin}
            IN /\ windows.data[i] = Candidate(start)
               /\ \A k \in 1..T : df_res[start + k].label <= win_labels[i]
               /\ \E k \in 1..T : df_res[start + k].label = win_labels[i]
               /\ dataset.has_label =>
                     /\ \A r \in inRange : RawFrame[r].label <= win_labels[i]
                     /\ \E r \in inRange : RawFrame[r].label = win_labels[i]

\* Two windows of one device were kept with different labels: the label 1
\* is of the device's last minute, which only the last window holds.
C11_Witness ==
    /\ WindowsExtracted
    /\ \E i, j \in DOMAIN win_labels : win_labels[i] = 0 /\ win_labels[j] = 1

\* The thresholds extract_windows is compared under
Ratios == {0, Half, MIN_VALID_RATIO, One}

\* C12 (SpecPrep): the kept windows are, in the order of their offsets, the
\* candidates whose ratio of non-missing cells to T * F is at least
\* min_valid_ratio, and no others; a discarded candidate raises nothing.
C12_KeptIffValid ==
    WindowsExtracted =>
        /\ perr = "none"
        /\ Len(windows.data) = Cardinality(ValidStarts(MIN_VALID_RATIO))
        /\ Len(win_labels) = Len(windows.data)
        /\ \A i \in DOMAIN windows.data :
              windows.data[i] = Candidate(Nth(ValidStarts(MIN_VALID_RATIO), i))

\* A candidate holding exactly 4/5 of its cells was kept and another
\* candidate of the same device was discarded.
C12_Witness ==
    /\ WindowsExtracted
    /\ \E start \in ValidStarts(MIN_VALID_RATIO) :
          NonMissing(start) * One = MIN_VALID_RATIO * (T * F)
    /\ \E start \in 0..(Len(df_res) - T) : start \notin ValidStarts(MIN_VALID_RATIO)
    /\ Len(windows.data) > 0

\* C13 (SpecPrep): for thresholds r1 <= r2 the windows kept under r2 are
\* among those kept under r1, and are no more in number.
C13_MonotonicFilter ==
    WindowsExtracted =>
        /\ windows = extract_windows(df_res, T, MIN_VALID_RATIO).windows
        /\ \A r1, r2 \in Ratios :
              r1 <= r2 =>
                 LET k1 == extract_windows(df_res, T, r1).windows.data
                     k2 == extract_windows(df_res, T, r2).windows.data
                 IN /\ {k2[i] : i \in DOMAIN k2} \subseteq {k1[i] : i \in DOMAIN k1}
                    /\ Len(k2) <= Len(k1)

\* Lowering the threshold from 0.8 to 0.5 keeps a window more.
C13_Witness ==
    /\ WindowsExtracted
    /\ Len(windows.data) > 0
    /\ Len(extract_windows(df_res, T, Half).windows.data) > Len(windows.data)

NoCellMissing == \A k \in DOMAIN df_res : \A j \in Channels : ~df_res[k].cells[j].nan

\* C14 (SpecPrep): the candidates are the windows of the offsets 0..n-T, one
\* each: all of them are kept under threshold 0, and under the threshold of
\* the run when no cell is missing; a series of fewer than T bins gives the
\* empty array of shape 0 x T x F and no labels, and raises nothing.
C14_OneCandidatePerOffset ==
    WindowsExtracted =>
        /\ perr = "none"
        /\ LET all == extract_windows(df_res, T, 0).windows
           IN IF Len(df_res) < T
              THEN /\ all = [shape |-> <<0, T, F>>, data |-> <<>>]
                   /\ windows = all
                   /\ win_labels = <<>>
              ELSE /\ all.shape = <<Len(df_res) - T + 1, T, F>>
                   /\ \A i \in DOMAIN all.data : all.data[i] = Candidate(i - 1)
                   /\ Len(windows.data) <= Len(df_res) - T + 1
                   /\ NoCellMissing => windows = all

\* The first device gave more than one window, none of them discarded, and
\* the second, of fewer than T bins, gave none.
C14_Witness ==
    /\ WindowsExtracted
    /\ dev = 2
    /\ Len(df_res) < T
    /\ windows.shape = <<0, T, F>>
    /\ Len(all_windows) = 1
    /\ all_windows[1].shape[1] > 1
    /\ all_windows[1].shape[1] = Len(concat_for_scaler[1]) - T + 1

\* In a state where aggregate_features has just returned (line 109): df_res
\* is still the frame it was given, agg the table it gave
Aggregated == ppc \in {"resample", "fit"} /\ Len(agg_rows) > 0
agg == agg_rows[Len(agg_rows)]

\* The populated values of channel j in the T rows that end at row k
Populated(k, j) ==
    Cardinality({i \in DOMAIN df_res : i > k - T /\ i <= k /\ ~df_res[i].cells[j].nan})

\* C15 (SpecPrep): the aggregate table of a device has one row per bin, in
\* the order of the bins, and a statistic of a channel is missing in a row
\* only when the T bins ending at that row hold fewer than T/2 populated
\* values of the channel.
C15_RowPerBin ==
    Aggregated =>
        /\ Len(agg) = Len(df_res)
        /\ \A k \in DOMAIN agg :
              /\ agg[k].index = k - 1
              /\ agg[k].label = df_res[k].label
              /\ \A n \in FeatureSet :
                    agg[k].stats[n].nan => 2 * Populated(k, ChannelOf(n[1])) < T

\* A table of more than T rows with a row whose window holds T/2 - 1 values
\* of a channel, its statistics missing, and a row of T/2 values or more,
\* its statistics present, the window holding missing values too.
C15_Witness ==
    /\ Aggregated
    /\ Len(agg) > T
    /\ \E k \in DOMAIN agg :
          /\ 2 * (Populated(k, 1) + 1) = T
          /\ agg[k].stats[<<"temperature", "median">>].nan
    /\ \E k \in DOMAIN agg :
          /\ Populated(k, 1) < T
          /\ k >= T
          /\ ~agg[k].stats[<<"temperature", "std">>].nan

\* In a state where resample_device has just returned (line 100)
Resampled == ppc = "interpolate"

\* The readings of the raw frame that fall in minute b
ReadingsIn(b) == {r \in DOMAIN RawFrame : RawFrame[r].timestamp \div BinSeconds = b}

\* C16 (SpecPrep): the label of a bin is the maximum of the labels of the
\* readings of its minute, and 0 when the minute has no reading or the file
\* has no label column.
C16_BinLabelIsMax ==
    Resampled =>
        \A k \in DOMAIN df_res :
            /\ df_res[k].bin = df_res[1].bin + k - 1
            /\ IF dataset.has_label /\ ReadingsIn(df_res[k].bin) # {}
               THEN /\ \A r \in ReadingsIn(df_res[k].bin) :
                          RawFrame[r].label <= df_res[k].label
                    /\ \E r \in ReadingsIn(df_res[k].bin) :
                          RawFrame[r].label = df_res[k].label
               ELSE df_res[k].label = 0

\* A bin of two readings, the first of label 0 and the second of label 2,
\* has label 2, and a bin without a reading has label 0.
C16_Witness ==
    /\ Resampled
    /\ \E k \in DOMAIN df_res :
          /\ Cardinality(ReadingsIn(df_res[k].bin)) = 2
          /\ \E r \in ReadingsIn(df_res[k].bin) : RawFrame[r].label = 0
          /\ df_res[k].label = 2
    /\ \E k \in DOMAIN df_res :
          ReadingsIn(df_res[k].bin) = {} /\ df_res[k].label = 0

\* In a state where interpolate_and_limit has just returned (line 101)
Interpolated == ppc = "windows"

\* The frame interpolate_and_limit was given
Binned == resample_device(RawFrame, dataset.has_label)

\* Channel j has an observed value within Limit bins of bin k in frame df
NearObserved(df, j, k) ==
    \E p \in DOMAIN df : ~df[p].cells[j].nan /\ p - k <= Limit /\ k - p <= Limit

\* C17 (SpecPrep): interpolation fills a missing bin of a channel only
\* within Limit bins of an observed value of the channel, leaves the other
\* missing bins missing, and changes no observed value and no label.
C17_BoundedInterpolation ==
    Interpolated =>
        \E before \in {Binned} :
            /\ Len(df_res) = Len(before)
            /\ \A k \in DOMAIN before :
                  /\ df_res[k].label = before[k].label
                  /\ df_res[k].bin = before[k].bin
                  /\ \A j \in Channels :
                        IF ~before[k].cells[j].nan
                        THEN df_res[k].cells[j] = before[k].cells[j]
                        ELSE ~df_res[k].cells[j].nan => NearObserved(before, j, k)

\* One run of missing bins of which the bins near its ends were filled and
\* the bins in its middle were not.
C17_Witness ==
    /\ Interpolated
    /\ \E before \in {Binned} :
          \E k \in DOMAIN before :
             /\ k > 1 /\ k + 1 < Len(before)
             /\ before[k].cells[2].nan /\ before[k + 1].cells[2].nan
             /\ ~df_res[k].cells[2].nan
             /\ df_res[k + 1].cells[2].nan
             /\ ~before[1].cells[2].nan

\* The channel rows main has put aside for the fit so far (line 102)
RowsForFit == ConcatFrom(concat_for_scaler, 1)

\* The imputer and the scaler, without the call counts
Parameters(state) == <<state.imputer, state.scaler>>

\* C18 (SpecPrep): while the normalization state is unfit a transform raises
\* NotFittedError and gives no value; the run fits the state once, before
\* its first transform; and a transform leaves the fitted parameters as
\* they are.
C18_FitOnceThenFrozen ==
    /\ [](/\ norm.fits <= 1
          /\ norm.transforms > 0 =>
                norm.fits = 1 /\ norm.imputer.fitted /\ norm.scaler.fitted
          /\ (norm.fits = 0 /\ RowsForFit # <<>>) =>
                /\ ~norm.imputer.fitted /\ ~norm.scaler.fitted
                /\ transform(norm, RowsForFit) = Raise("NotFittedError"))
    /\ [][norm'.transforms # norm.transforms =>
             /\ norm.fits = 1
             /\ norm'.fits = norm.fits
             /\ Parameters(norm') = Parameters(norm)]_vars

\* Both transforms of the run were called on the state fit once, which
\* holds a median and a scale that are not those of the identity.
C18_Witness ==
    /\ norm.transforms = 2
    /\ norm.fits = 1
    /\ norm.imputer.statistics[1] > 0
    /\ norm.scaler.scale[1] > 1

\* The normalization state the artifacts imputer.joblib and scaler.joblib
\* hold after a preparation run on the readings of OtherDevice
FrozenState ==
    The({ The({ [imputer |-> imputer, fits |-> 1, transforms |-> 0,
                 scaler |-> scaler_fit(imputer_transform(imputer, X).value)]
                : imputer \in {imputer_fit(X)} })
          : X \in {FeatureValues(interpolate_and_limit(
                       resample_device(OtherDevice, TRUE), Limit))} })

\* The frozen transform of array a, its values in units of One
Normalized(a) ==
    transform(FrozenState, [i \in DOMAIN a.data |->
                              [j \in DOMAIN a.data[i] |-> Num(a.data[i][j])]])

\* C19 (Spec): when a request is scored, the array the sequence predictor
\* is invoked on is the request's window after the frozen transform
\* (imputation, then scaling) of the preparation run.
C19_NormalizedAtInference ==
    (Answered /\ outcome.trace.scored /\ "lstm" \in outcome.trace.invoked) =>
        \E n \in {Normalized(AdaptedWindow)} :
            /\ n.kind = "return"
            /\ \A i \in DOMAIN n.value : \A j \in DOMAIN n.value[i] :
                  outcome.trace.model_input.data[i][j] * One = n.value[i][j].v

\* The table the aggregate transform of line 151 is called on
AggTable == ConcatFrom(agg_rows, 1)

\* The frozen transform of the statistic st of row r, taken per channel as
\* for a window row: a row of the F channel values
ScaledStats(r, st) ==
    transform(norm, <<[j \in Channels |-> r.stats[<<AGG_FEATURES[j], st>>]]>>)

\* C20 (SpecPrep): once the run has called the transform on the aggregate
\* table, the run has not failed, every statistic column holds the frozen
\* per-channel transform of its values, and the device_id, device_type and
\* label columns are as they were.
C20_AggregatesNormalized ==
    (norm.transforms = 2) =>
        /\ perr = "none"
        /\ ppc = "done"
        /\ Len(agg_df) = Len(AggTable)
        /\ \A i \in DOMAIN agg_df :
              /\ agg_df[i].device_id = AggTable[i].device_id
              /\ agg_df[i].device_type = AggTable[i].device_type
              /\ agg_df[i].label = AggTable[i].label
              /\ \A n \in FeatureSet :
                    agg_df[i].stats[n] =
                        ScaledStats(AggTable[i], n[2]).value[1][ChannelOf(n[1])]

\* In a state after the stage of lines 129-144, in which the windows of
\* every device are put together, normalized and saved
WindowsStageOver == norm.transforms >= 1

\* The number of windows the devices of the run gave
KeptInRun == SumTo([i \in DOMAIN all_windows |-> all_windows[i].shape[1]],
                   1, Len(all_windows))

\* C21 (SpecPrep): after the stage that saves them, windows.npy holds an
\* array of shape N x T x F and labels.npy N labels, N being the number of
\* windows the devices gave (0 when no device gave one), and the i-th label
\* is the label the i-th window was extracted with.
C21_SavedArraysAligned ==
    WindowsStageOver =>
        /\ {"windows.npy", "labels.npy"} \subseteq artifacts.files
        /\ artifacts.windows.shape = <<KeptInRun, T, F>>
        /\ Len(artifacts.windows.data) = KeptInRun
        /\ Len(artifacts.labels) = KeptInRun
        /\ artifacts.labels = ConcatFrom(all_labels, 1)


\* The bins of device d alone: its readings in the file, resampled and
\* interpolated with no reading of another device at hand
OwnBins(d) ==
    interpolate_and_limit(resample_device(dataset.devices[d], dataset.has_label), Limit)

\* C23 (SpecPrep): windows and aggregate rows never mix devices.  The frame
\* the windows of a device are cut from holds the consecutive minutes of that
\* device alone, in chronological order, every window is T consecutive rows
\* of it, and the aggregate table of a device is the one computed from the
\* bins of that device alone and carries its id.
C23_DevicesNeverMixed ==
    /\ WindowsExtracted =>
          \E own \in {OwnBins(dev)} :
             /\ df_res = own
             /\ \A k \in DOMAIN df_res :
                   /\ df_res[k].device_id = dataset.devices[dev][1].device_id
                   /\ df_res[k].bin = df_res[1].bin + k - 1
             /\ \A w \in DOMAIN windows.data :
                   \E start \in 0..(Len(own) - T) :
                      windows.data[w] = [i \in 1..T |-> own[start + i].cells]
    /\ Aggregated =>
          \E d \in {Len(agg_rows)} :
             /\ agg = aggregate_features(OwnBins(d))
             /\ \A k \in DOMAIN agg :
                   agg[k].device_id = dataset.devices[d][1].device_id

\* A file of two devices whose readings cover the same minutes: the first
\* gave windows, the table of the second has just been computed and holds a
\* statistic.
C23_Witness ==
    /\ Aggregated
    /\ Len(dataset.devices) = 2
    /\ Len(agg_rows) = 2
    /\ Len(all_windows) > 0
    /\ \E k \in DOMAIN agg :
          /\ agg[k].device_id = 2
          /\ ~agg[k].stats[<<"temperature", "mean">>].nan


----------------------------------------------------------------------------
\* Properties of the ingestion services

\* The step serves a request of the ingestion route given
Serves(route) == served' = served + 1 /\ request'.route = route

\* The step stores nothing and answers with an error
Rejects ==
    /\ response'.status # 200
    /\ metrics_col' = metrics_col
    /\ coll' = coll

\* A timestamp that is present and is not the text of a date
Unparsable(ts) == ts.t = "str" /\ ~IsDate(ts.v)

\* C22 (SpecIngest): a request holding a reading whose timestamp is present
\* but unparsable is rejected, and a document is stored with the current
\* time for its timestamp only when the reading has no timestamp.
C22_UnparsableRejected ==
    [][(Serves("flask") \/ Serves("fastapi")) =>
          \A i \in DOMAIN request'.payload.samples :
             /\ Unparsable(request'.payload.samples[i].timestamp) => Rejects
             /\ (/\ request'.route = "flask"
                 /\ response'.status = 200
                 /\ metrics_col'[Len(metrics_col) + i].timestamp = clock)
                => request'.payload.samples[i].timestamp = Absent]_vars

\* C26 (SpecIngest): a POST /ingest of the Flask service answered 400 or 401
\* leaves the collections as they were: no client document and no metrics
\* document is created by it.
C26_RejectedLeavesDatabase ==
    [][(Serves("flask") /\ response'.status \in {400, 401}) =>
          /\ clients_col' = clients_col
          /\ metrics_col' = metrics_col]_vars


\* C24 (SpecIngest): POST /predict/fusion with a payload missing "window" or
\* missing "agg" is answered with HTTP status 400, and the fusion scorer is
\* not invoked.
C24_MissingKeyIs400 ==
    [][(/\ Serves("predict_fusion")
        /\ ~(request'.payload.has_window /\ request'.payload.has_agg))
       => /\ response'.status = 400
          /\ calls' = calls
          /\ handles' = handles]_vars

====
